---- MODULE Spec2Model ----
(***************************************************************************)
(* Model of package metadata (src/main.go): embedding a prompt into a PNG  *)
(* file as a tEXt chunk (AddPromptToPNG, createTextChunk,                  *)
(* convertJPEGToPNG) and reading it back (ReadPromptFromPNG); of the edit  *)
(* command that calls it (runEdit, src/unnamed/part_002); and of the API   *)
(* client (gemini.Client, src/unnamed/part_006).                           *)
(*                                                                         *)
(* A file is a sequence of bytes (naturals 0..255).  A 32-bit unsigned     *)
(* value is kept as a pair <<hi, lo>> of 16-bit halves, because the model  *)
(* checker's integers are 32-bit signed.                                   *)
(***************************************************************************)
EXTENDS Integers, Sequences, FiniteSets

\* ------------------------------------------------------------ bounds

\* Number of chunks between the signature and IEND in an initial container.
MaxChunks == 1

\* Number of AddPromptToPNG calls in one behaviour.
MaxAdds == 2

\* Number of requests the client sends in one behaviour.
MaxGenerates == 2

\* ------------------------------------------------------------ constants

PNGSignature == <<137, 80, 78, 71, 13, 10, 26, 10>>

JPEGMagic == <<255, 216>>

\* "tEXt"
tEXt == <<116, 69, 88, 116>>

\* "IEND"
IEND == <<73, 69, 78, 68>>

\* "Prompt"
PromptKeyword == <<80, 114, 111, 109, 112, 116>>

\* ------------------------------------------------------------ bytes

\* s[from..] and s[..to] with Go's half-open, zero-based bounds: s[a:b].
Slice(s, a, b) == SubSeq(s, a + 1, b)

\* The comparison without the length guard: a buffer shorter than the magic
\* is compared with as much of the magic as it holds.
HasPrefixOfAvailable(s, magic) ==
    IF Len(s) >= Len(magic) THEN Slice(s, 0, Len(magic)) = magic
    ELSE s = Slice(magic, 0, Len(s))

\* bytes.Equal(data[:n], magic) guarded by len(data) >= n.
HasPrefix(s, magic) == Len(s) >= Len(magic) /\ Slice(s, 0, Len(magic)) = magic

\* Bit k (given as its weight 2^k) of a XOR b.
XorBit(a, b, k) == (((a \div k) + (b \div k)) % 2) * k

\* a XOR b for 16-bit a and b.
Xor(a, b) ==
    XorBit(a, b, 1) + XorBit(a, b, 2) + XorBit(a, b, 4) + XorBit(a, b, 8)
    + XorBit(a, b, 16) + XorBit(a, b, 32) + XorBit(a, b, 64) + XorBit(a, b, 128)
    + XorBit(a, b, 256) + XorBit(a, b, 512) + XorBit(a, b, 1024)
    + XorBit(a, b, 2048) + XorBit(a, b, 4096) + XorBit(a, b, 8192)
    + XorBit(a, b, 16384) + XorBit(a, b, 32768)

\* binary.Write(buf, binary.BigEndian, uint32(n)) for a length n.
BigEndianLen(n) ==
    <<(n \div 16777216) % 256, (n \div 65536) % 256, (n \div 256) % 256, n % 256>>

\* binary.Write(buf, binary.BigEndian, crc) for crc = <<hi, lo>>.
BigEndianU32(w) ==
    <<w[1] \div 256, w[1] % 256, w[2] \div 256, w[2] % 256>>

\* binary.Read(file, binary.BigEndian, &length): four bytes to <<hi, lo>>.
ReadU32(b) == <<b[1] * 256 + b[2], b[3] * 256 + b[4]>>

\* ------------------------------------------------------------ CRC-32

\* The reflected IEEE 802.3 polynomial 0xEDB88320 as <<hi, lo>>.
IEEEPoly == <<60856, 33568>>

ShiftRight1(w) == <<w[1] \div 2, (w[2] \div 2) + (w[1] % 2) * 32768>>

ShiftRight8(w) == <<w[1] \div 256, (w[2] \div 256) + (w[1] % 256) * 256>>

XorU32(v, w) == <<Xor(v[1], w[1]), Xor(v[2], w[2])>>

RECURSIVE CrcBits(_, _)
CrcBits(w, k) ==
    IF k = 0 THEN w
    ELSE CrcBits(IF w[2] % 2 = 1 THEN XorU32(ShiftRight1(w), IEEEPoly)
                                ELSE ShiftRight1(w), k - 1)

CrcTable == [i \in 0..255 |-> CrcBits(<<0, i>>, 8)]

\* One byte of the table-driven update: table[byte(crc) ^ b] ^ (crc >> 8).
CrcUpdate(w, b) == XorU32(CrcTable[Xor(w[2] % 256, b)], ShiftRight8(w))

\* crc32.ChecksumIEEE(s).  The running value is compared first so that it is
\* computed before the update that uses it, not inside it.
ChecksumIEEE(s) ==
    LET crc[i \in 0..Len(s)] ==
            IF i = 0 THEN <<65535, 65535>>
            ELSE LET prev == crc[i - 1]
                 IN  IF prev = <<>> THEN prev ELSE CrcUpdate(prev, s[i])
    IN  XorU32(crc[Len(s)], <<65535, 65535>>)

\* ------------------------------------------------------------ createTextChunk

\* createTextChunk with the 0 separator left out.
createTextChunkNoSeparator(keyword, text) ==
    LET chunkData == keyword \o text
        crcData   == tEXt \o chunkData
    IN  BigEndianLen(Len(chunkData)) \o tEXt \o chunkData
            \o BigEndianU32(ChecksumIEEE(crcData))

\* createTextChunk with the CRC taken over the data alone.
createTextChunkCrcOfData(keyword, text) ==
    LET chunkData == keyword \o <<0>> \o text
    IN  BigEndianLen(Len(chunkData)) \o tEXt \o chunkData
            \o BigEndianU32(ChecksumIEEE(chunkData))

\* createTextChunk with the length of the text alone in the length field.
createTextChunkLengthOfText(keyword, text) ==
    LET chunkData == keyword \o <<0>> \o text
        crcData   == tEXt \o chunkData
    IN  BigEndianLen(Len(text)) \o tEXt \o chunkData
            \o BigEndianU32(ChecksumIEEE(crcData))

\* createTextChunk(keyword, text): length, "tEXt", keyword 0 text, CRC over
\* "tEXt" followed by the data.
createTextChunk(keyword, text) ==
    LET chunkData == keyword \o <<0>> \o text
        crcData   == tEXt \o chunkData
    IN  BigEndianLen(Len(chunkData)) \o tEXt \o chunkData
            \o BigEndianU32(ChecksumIEEE(crcData))

\* ------------------------------------------------------------ input files

\* A chunk as a PNG writer lays it out (the files the program is given).
EncodeChunk(type, chunkData) ==
    BigEndianLen(Len(chunkData)) \o type \o chunkData
        \o BigEndianU32(ChecksumIEEE(type \o chunkData))

\* The 12-byte terminal chunk: 00 00 00 00 49 45 4E 44 AE 42 60 82.
IENDChunk == EncodeChunk(IEND, <<>>)

\* Chunks an input file may hold before IEND: image data ("IDAT"), a Prompt
\* record, a tEXt record with another keyword, and a tEXt chunk whose data
\* has no 0 separator.
SampleChunks ==
    { EncodeChunk(<<73, 68, 65, 84>>, <<7>>),
      EncodeChunk(tEXt, PromptKeyword \o <<0, 111>>),
      EncodeChunk(tEXt, <<75, 0, 118>>),
      EncodeChunk(tEXt, PromptKeyword) }

RECURSIVE ChunkSeqs(_)
ChunkSeqs(n) ==
    IF n = 0 THEN {<<>>}
    ELSE LET S == ChunkSeqs(n - 1)
         IN  S \cup {s \o c : s \in S, c \in SampleChunks}

\* Well-formed PNG files: signature, up to MaxChunks chunks, IEND.
Containers == {PNGSignature \o s \o IENDChunk : s \in ChunkSeqs(MaxChunks)}

\* c with a stored CRC that is not the CRC-32 of its type and data.
WithBadCRC(c) == [c EXCEPT ![Len(c)] = (@ + 1) % 256]

\* Chunks of the files that are read: the sample chunks, a second Prompt
\* record, and each of them with a bad CRC.
ReadChunks ==
    LET good == SampleChunks \cup {EncodeChunk(tEXt, PromptKeyword \o <<0, 112>>)}
    IN  good \cup {WithBadCRC(c) : c \in good}

\* A stand-in for a JPEG stream: SOI, an empty APP0 segment, EOI.
JPEGSample == <<255, 216, 255, 224, 0, 2, 255, 217>>

Prefixes(s) == {Slice(s, 0, n) : n \in 0..Len(s)}

\* What a file given to ReadPromptFromPNG may hold: the signature, up to two
\* chunks and a terminal chunk (its CRC good or bad), followed by nothing, a
\* stray byte or one more Prompt record; any truncation of these; a JPEG.
ReadFiles ==
    LET seqs == {<<>>} \cup ReadChunks
                    \cup {a \o b : a \in ReadChunks, b \in ReadChunks}
        ends == {IENDChunk, WithBadCRC(IENDChunk)}
        tails == {<<>>, <<0>>, EncodeChunk(tEXt, PromptKeyword \o <<0, 113>>)}
    IN  UNION {Prefixes(PNGSignature \o s \o e \o t) :
                   s \in seqs, e \in ends, t \in tails}
            \cup Prefixes(JPEGSample)

\* What the file at filepath may hold when the program starts: a well-formed
\* PNG, a JPEG, or any truncation of either.
InitialFiles ==
    UNION {Prefixes(c) : c \in Containers} \cup Prefixes(JPEGSample)

\* The prompts passed to AddPromptToPNG: empty, with a 0 byte, "a sunset".
Prompts ==
    { <<>>, <<98, 0, 99>>, <<97, 32, 115, 117, 110, 115, 101, 116>> }

\* convertJPEGToPNG writing the image back in its own format.
EncodedAsJPEG == JPEGSample

\* What png.Encode writes for the decoded image: signature, IHDR, IDAT, IEND
\* (header and pixel data abridged).
EncodedPNG ==
    PNGSignature \o EncodeChunk(<<73, 72, 68, 82>>, <<1, 1>>)
        \o EncodeChunk(<<73, 68, 65, 84>>, <<7>>) \o IENDChunk

\* ------------------------------------------------------------ state

\* Callers of the package; Spec runs the first one alone.
Procs == {1, 2}

VARIABLES
    file,      \* the bytes stored at filepath
    pc,        \* pc[p]: where caller p is inside its call
    prompt,    \* prompt[p]: AddPromptToPNG's prompt argument
    data,      \* data[p]: AddPromptToPNG's local data
    addErr,    \* addErr[p]: the error AddPromptToPNG returned ("nil": none)
    off,       \* off[p]: bytes ReadPromptFromPNG has consumed from the file
    readRes,   \* readRes[p]: what p's last call returned, if ReadPromptFromPNG
    done,      \* done[p]: the call p completed last ("none", "add", "read")
    orig,      \* orig[p]: the bytes AddPromptToPNG first read (history)
    converted, \* converted[p]: the call went through convertJPEGToPNG (history)
    steps,     \* steps[p]: the steps p's call has attempted, in order (history)
    seen,      \* seen[p]: successful writes made before p's call read (history)
    calls,     \* AddPromptToPNG calls started (history)
    initial,   \* the file when the program started (history)
    embedded,  \* prompts written by successful calls, in write order (history)
    lastWriter, \* the caller whose write succeeded last, 0 when none (history)
    edit,      \* runEdit's flags, locals, position and return value
    client,    \* the gemini Client
    sent,      \* the requests the client has sent, in order
    genRes,    \* what the client's last generate call returned
    env,       \* the process environment: the value of each API key variable
    clientErr, \* the error the last NewClient call returned ("nil": none)
    genCall,   \* the arguments of the client's last generate call (history)
    story      \* runStory's flag, locals, position and return value

vars == <<file, pc, prompt, data, addErr, off, readRes, done, orig, converted,
          steps, seen, calls, initial, embedded, lastWriter,
          edit, client, sent, genRes, env, clientErr, genCall, story>>

addVars == <<prompt, data, addErr, orig, converted, steps, seen>>

readVars == <<off, readRes>>

\* The state of the command and of the API client, which package metadata
\* does not touch.
cliVars == <<edit, client, sent, genRes, env, clientErr, genCall, story>>

genVars == <<client, sent, genRes, env, clientErr, genCall>>

\* The state of the commands.
cmdVars == <<edit, story>>

\* The state of package metadata and its callers.
pkgVars == <<file, pc, addVars, readVars, done, calls, initial, embedded,
             lastWriter>>

\* runEdit before it has run.
NoEdit ==
    [ pc |-> "start", editStorePrompt |-> FALSE, instruction |-> <<>>,
      editedImageData |-> <<>>, saved |-> <<>>, warned |-> FALSE,
      confirmed |-> FALSE, err |-> "none" ]

\* No Client constructed yet.
NoClient == [apiKey |-> "", model |-> ""]

NoGenerate == [imageData |-> "", err |-> "none"]

\* No generate call made yet.
NoCall == [text |-> "", imageBase64 |-> "", aspectRatio |-> "", resolution |-> ""]

\* None of the four API key variables set.
NoEnv ==
    [ n \in {"NANOBANANA_GEMINI_API_KEY", "NANOBANANA_GOOGLE_API_KEY",
             "GEMINI_API_KEY", "GOOGLE_API_KEY"} |-> "" ]

\* runStory before it has run.
NoStory ==
    [ pc |-> "start", storyFrames |-> 0, i |-> 0, attempted |-> <<>>,
      saved |-> <<>>, successCount |-> 0, err |-> "none" ]

NoResult == [err |-> "none", text |-> <<>>]

Failed(e) == [err |-> e, text |-> <<>>]

InitBase ==
    /\ pc = [p \in Procs |-> "idle"]
    /\ prompt = [p \in Procs |-> <<>>]
    /\ data = [p \in Procs |-> <<>>]
    /\ addErr = [p \in Procs |-> "none"]
    /\ off = [p \in Procs |-> 0]
    /\ readRes = [p \in Procs |-> NoResult]
    /\ done = [p \in Procs |-> "none"]
    /\ orig = [p \in Procs |-> <<>>]
    /\ converted = [p \in Procs |-> FALSE]
    /\ steps = [p \in Procs |-> <<>>]
    /\ seen = [p \in Procs |-> 0]
    /\ calls = 0
    /\ initial = file
    /\ embedded = <<>>
    /\ lastWriter = 0
    /\ edit = NoEdit
    /\ client = NoClient
    /\ sent = <<>>
    /\ genRes = NoGenerate
    /\ clientErr = "none"
    /\ genCall = NoCall
    /\ story = NoStory

\* No API key in the environment: package metadata and runEdit's part after
\* the API call need none.
Init == file \in InitialFiles /\ InitBase /\ env = NoEnv

\* ------------------------------------------------------------ AddPromptToPNG

\* return err from AddPromptToPNG.
AddReturn(p, e) ==
    /\ addErr' = [addErr EXCEPT ![p] = e]
    /\ pc' = [pc EXCEPT ![p] = "idle"]
    /\ done' = [done EXCEPT ![p] = "add"]

\* The call with the length check made first, before the format checks.
AddPromptToPNG_ReadFileLengthFirst(p, t) ==
    /\ pc[p] = "idle"
    /\ calls < MaxAdds
    /\ calls' = calls + 1
    /\ prompt' = [prompt EXCEPT ![p] = t]
    /\ converted' = [converted EXCEPT ![p] = FALSE]
    /\ off' = [off EXCEPT ![p] = 0]
    /\ readRes' = [readRes EXCEPT ![p] = NoResult]
    /\ steps' = [steps EXCEPT ![p] = <<"read">>]
    /\ seen' = [seen EXCEPT ![p] = Len(embedded)]
    /\ UNCHANGED <<file, initial, embedded, lastWriter>>
    /\ \/ /\ AddReturn(p, "failed to read image file")
          /\ data' = [data EXCEPT ![p] = <<>>]
          /\ orig' = [orig EXCEPT ![p] = <<>>]
       \/ /\ data' = [data EXCEPT ![p] = file]
          /\ orig' = [orig EXCEPT ![p] = file]
          /\ IF Len(file) < 12
             THEN AddReturn(p, "PNG file too short")
             ELSE IF HasPrefix(file, PNGSignature)
             THEN /\ pc' = [pc EXCEPT ![p] = "splice"]
                  /\ UNCHANGED <<addErr, done>>
             ELSE IF ~HasPrefix(file, JPEGMagic)
             THEN AddReturn(p, "file is neither PNG nor JPEG format")
             ELSE /\ pc' = [pc EXCEPT ![p] = "convert"]
                  /\ UNCHANGED <<addErr, done>>

\* The call, os.ReadFile and the format checks.
AddPromptToPNG_ReadFile(p, t) ==
    /\ pc[p] = "idle"
    /\ calls < MaxAdds
    /\ calls' = calls + 1
    /\ prompt' = [prompt EXCEPT ![p] = t]
    /\ converted' = [converted EXCEPT ![p] = FALSE]
    /\ off' = [off EXCEPT ![p] = 0]
    /\ readRes' = [readRes EXCEPT ![p] = NoResult]
    /\ steps' = [steps EXCEPT ![p] = <<"read">>]
    /\ seen' = [seen EXCEPT ![p] = Len(embedded)]
    /\ UNCHANGED <<file, initial, embedded, lastWriter>>
    /\ \/ /\ AddReturn(p, "failed to read image file")
          /\ data' = [data EXCEPT ![p] = <<>>]
          /\ orig' = [orig EXCEPT ![p] = <<>>]
       \/ /\ data' = [data EXCEPT ![p] = file]
          /\ orig' = [orig EXCEPT ![p] = file]
          /\ LET isPNG  == HasPrefix(file, PNGSignature)
                 isJPEG == HasPrefix(file, JPEGMagic)
             IN  IF isPNG
                 THEN /\ pc' = [pc EXCEPT ![p] = "splice"]
                      /\ UNCHANGED <<addErr, done>>
                 ELSE IF ~isJPEG
                 THEN AddReturn(p, "file is neither PNG nor JPEG format")
                 ELSE /\ pc' = [pc EXCEPT ![p] = "convert"]
                      /\ UNCHANGED <<addErr, done>>

\* convertJPEGToPNG(filepath): open and decode, create and encode.  Whether
\* the library decodes the stream, and whether the file system fails, is the
\* environment's choice.  os.Create truncates the file before png.Encode
\* writes to it.
convertJPEGToPNG(p) ==
    /\ pc[p] = "convert"
    /\ converted' = [converted EXCEPT ![p] = TRUE]
    /\ steps' = [steps EXCEPT ![p] = Append(@, "convert")]
    /\ UNCHANGED <<prompt, data, orig, seen, readVars, calls, initial, embedded,
                   lastWriter>>
    /\ \/ /\ AddReturn(p, "failed to convert JPEG to PNG: open")
          /\ UNCHANGED file
       \/ /\ AddReturn(p, "failed to convert JPEG to PNG: failed to decode JPEG")
          /\ UNCHANGED file
       \/ /\ AddReturn(p, "failed to convert JPEG to PNG: create")
          /\ UNCHANGED file
       \/ /\ AddReturn(p, "failed to convert JPEG to PNG: failed to encode PNG")
          /\ file' \in {<<>>, PNGSignature}
       \/ /\ file' = EncodedPNG
          /\ pc' = [pc EXCEPT ![p] = "reread"]
          /\ UNCHANGED <<addErr, done>>

\* Re-read the now-PNG file.
AddPromptToPNG_Reread(p) ==
    /\ pc[p] = "reread"
    /\ steps' = [steps EXCEPT ![p] = Append(@, "reread")]
    /\ UNCHANGED <<file, prompt, orig, converted, seen, readVars, calls, initial,
                   embedded, lastWriter>>
    /\ \/ /\ AddReturn(p, "failed to read converted PNG file")
          /\ UNCHANGED data
       \/ /\ data' = [data EXCEPT ![p] = file]
          /\ pc' = [pc EXCEPT ![p] = "splice"]
          /\ UNCHANGED <<addErr, done>>

\* The chunk appended to the file, after IEND.
InsertAtEnd(d, textChunk) == d \o textChunk

\* The chunk inserted right after the signature, before every other chunk.
InsertAfterSignature(d, textChunk) ==
    Slice(d, 0, 8) \o textChunk \o Slice(d, 8, Len(d))

\* The chunk and a fresh terminal chunk in place of the last 12 bytes.
InsertRewritingEnd(d, textChunk) ==
    Slice(d, 0, Len(d) - 12) \o textChunk \o IENDChunk

\* newData: the chunk inserted 12 bytes before the end of data.
InsertBeforeIEND(d, textChunk) ==
    LET insertPos == Len(d) - 12
    IN  Slice(d, 0, insertPos) \o textChunk \o Slice(d, insertPos, Len(d))

\* AddPromptToPNG_Write with its results replaced: shortErr returned for a
\* buffer of fewer than 12 bytes, failErr for a failed write, and the chunk
\* spliced into base.
WriteVariant(p, shortErr, failErr, base) ==
    /\ pc[p] = "splice"
    /\ UNCHANGED <<prompt, data, orig, converted, seen, readVars, calls, initial>>
    /\ LET textChunk == createTextChunk(PromptKeyword, prompt[p])
       IN  IF Len(data[p]) < 12
           THEN /\ AddReturn(p, shortErr)
                /\ UNCHANGED <<file, steps, embedded, lastWriter>>
           ELSE /\ steps' = [steps EXCEPT ![p] = Append(@, "write")]
                /\ \/ /\ file' = InsertBeforeIEND(base, textChunk)
                      /\ embedded' = Append(embedded, prompt[p])
                      /\ lastWriter' = p
                      /\ AddReturn(p, "nil")
                   \/ /\ file' \in {file, <<>>}
                      /\ UNCHANGED <<embedded, lastWriter>>
                      /\ AddReturn(p, failErr)

\* A too-short buffer passed over in silence: nothing is written and no
\* error is returned.
AddPromptToPNG_WriteShortAccepted(p) ==
    WriteVariant(p, "nil", "failed to write PNG file", data[p])

\* os.WriteFile's error dropped: the call returns nil whether or not the
\* file was written.
AddPromptToPNG_WriteErrorDropped(p) ==
    WriteVariant(p, "PNG file too short", "nil", data[p])

\* The chunk spliced into the file as it is at the time of the write, not
\* into the bytes the call read.
AddPromptToPNG_WriteIntoCurrent(p) ==
    WriteVariant(p, "PNG file too short", "failed to write PNG file",
                 IF Len(file) >= 12 THEN file ELSE data[p])

\* The length check, the splice and os.WriteFile.  A failed write leaves the
\* file as it was (open failed) or truncated (write failed).
AddPromptToPNG_Write(p) ==
    /\ pc[p] = "splice"
    /\ UNCHANGED <<prompt, data, orig, converted, seen, readVars, calls, initial>>
    /\ LET textChunk == createTextChunk(PromptKeyword, prompt[p])
       IN  IF Len(data[p]) < 12
           THEN /\ AddReturn(p, "PNG file too short")
                /\ UNCHANGED <<file, steps, embedded, lastWriter>>
           ELSE /\ steps' = [steps EXCEPT ![p] = Append(@, "write")]
                /\ \/ /\ file' = InsertBeforeIEND(data[p], textChunk)
                      /\ embedded' = Append(embedded, prompt[p])
                      /\ lastWriter' = p
                      /\ AddReturn(p, "nil")
                   \/ /\ file' \in {file, <<>>}
                      /\ UNCHANGED <<embedded, lastWriter>>
                      /\ AddReturn(p, "failed to write PNG file")

\* ------------------------------------------------------------ ReadPromptFromPNG

\* io.ReadFull reporting every short read as io.EOF.
ReadFullAlwaysEOF(avail, want) ==
    IF avail >= want THEN "nil" ELSE "EOF"

\* io.ReadFull reporting every short read as io.ErrUnexpectedEOF.
ReadFullNeverEOF(avail, want) ==
    IF avail >= want THEN "nil" ELSE "unexpected EOF"

\* io.ReadFull wanting one byte more than it was asked for.
ReadFullNeedsMore(avail, want) ==
    IF avail > want THEN "nil"
    ELSE IF avail = 0 THEN "EOF"
    ELSE "unexpected EOF"

\* The error of io.ReadFull (and of binary.Read) asked for want bytes when
\* avail bytes are left: nil, io.EOF when nothing could be read, else
\* io.ErrUnexpectedEOF.
ReadFull(avail, want) ==
    IF avail >= want THEN "nil"
    ELSE IF avail = 0 THEN "EOF"
    ELSE "unexpected EOF"

\* The same for make([]byte, length) with length = <<hi, lo>>; a file holds
\* fewer than 65536 bytes here, so a length with hi > 0 never fits.
ReadFullData(avail, length) ==
    IF length[1] = 0 THEN ReadFull(avail, length[2])
    ELSE IF avail = 0 THEN "EOF"
    ELSE "unexpected EOF"

\* bytes.IndexByte(b, 0): the zero-based index of the first 0, or -1.
RECURSIVE IndexFrom(_, _)
IndexFrom(b, i) ==
    IF i > Len(b) THEN -1
    ELSE IF b[i] = 0 THEN i - 1
    ELSE IndexFrom(b, i + 1)

\* bytes.IndexByte answering len(b) instead of -1 when there is no 0.
IndexByte0OrLen(b) ==
    IF IndexFrom(b, 1) = -1 THEN Len(b) ELSE IndexFrom(b, 1)

IndexByte0(b) == IndexFrom(b, 1)

\* The CRC read and compared with the CRC-32 of type and data.
ReadCRCValidated(f, o, length) ==
    IF ReadFull(Len(f) - o - 8 - length[2], 4) # "nil"
    THEN ReadFull(Len(f) - o - 8 - length[2], 4)
    ELSE IF Slice(f, o + 8 + length[2], o + 12 + length[2])
              # BigEndianU32(ChecksumIEEE(Slice(f, o + 4, o + 8 + length[2])))
    THEN "corrupt chunk"
    ELSE "nil"

\* Read CRC (and discard): the error of the read of the 4 bytes after the
\* data of the chunk at offset o.
ReadCRC(f, o, length) == ReadFull(Len(f) - o - 8 - length[2], 4)

\* The file position after the chunk at o was read without the CRC.
NextChunkOffsetNoCRC(o, length) == o + 8 + length[2]

\* The file position after the four reads of one iteration: length, type,
\* data and CRC of the chunk at offset o.
NextChunkOffset(o, length) == o + 12 + length[2]

\* One iteration of the chunk loop on file f at offset o: either a return
\* (next = FALSE, with the result) or the offset of the next chunk.
ReadChunk(f, o) ==
    LET avail     == Len(f) - o
        lenErr    == ReadFull(avail, 4)
        length    == ReadU32(Slice(f, o, o + 4))
        typeErr   == ReadFull(avail - 4, 4)
        chunkType == Slice(f, o + 4, o + 8)
        dataErr   == ReadFullData(avail - 8, length)
        chunkData == Slice(f, o + 8, o + 8 + length[2])
        crcErr    == ReadCRC(f, o, length)
        nullPos   == IndexByte0(chunkData)
        stop(r)   == [next |-> FALSE, off |-> o, res |-> r]
    IN  IF lenErr = "EOF" THEN stop(Failed("no Prompt metadata found in PNG"))
        ELSE IF lenErr # "nil" THEN stop(Failed(lenErr))
        ELSE IF typeErr # "nil" THEN stop(Failed(typeErr))
        ELSE IF dataErr # "nil" THEN stop(Failed(dataErr))
        ELSE IF crcErr # "nil" THEN stop(Failed(crcErr))
        ELSE IF /\ chunkType = tEXt
                /\ nullPos > 0
                /\ Slice(chunkData, 0, nullPos) = PromptKeyword
        THEN stop([err |-> "nil",
                   text |-> Slice(chunkData, nullPos + 1, Len(chunkData))])
        ELSE IF chunkType = IEND
        THEN stop(Failed("no Prompt metadata found in PNG"))
        ELSE [next |-> TRUE, off |-> NextChunkOffset(o, length),
              res |-> NoResult]

\* The chunk loop from offset o on to its return.
RECURSIVE ReadLoop(_, _)
ReadLoop(f, o) ==
    IF ReadChunk(f, o).next THEN ReadLoop(f, ReadChunk(f, o).off)
    ELSE ReadChunk(f, o).res

\* What ReadPromptFromPNG returns for a file it could open and that holds f.
ReadAll(f) ==
    IF ReadFull(Len(f), 8) # "nil" THEN Failed("failed to read PNG signature")
    ELSE IF Slice(f, 0, 8) # PNGSignature THEN Failed("not a valid PNG file")
    ELSE ReadLoop(f, 8)

\* return from ReadPromptFromPNG.
ReadReturn(p, r) ==
    /\ readRes' = [readRes EXCEPT ![p] = r]
    /\ pc' = [pc EXCEPT ![p] = "idle"]
    /\ done' = [done EXCEPT ![p] = "read"]

\* The call and os.Open.
ReadPromptFromPNG_Open(p) ==
    /\ pc[p] = "idle"
    /\ off' = [off EXCEPT ![p] = 0]
    /\ UNCHANGED <<file, addVars, calls, initial, embedded, lastWriter>>
    /\ \/ ReadReturn(p, Failed("failed to open PNG file"))
       \/ /\ pc' = [pc EXCEPT ![p] = "signature"]
          /\ readRes' = [readRes EXCEPT ![p] = NoResult]
          /\ UNCHANGED done

\* The 8 bytes read but not compared with the signature.
ReadPromptFromPNG_SignatureUnchecked(p) ==
    /\ pc[p] = "signature"
    /\ UNCHANGED <<file, addVars, calls, initial, embedded, lastWriter>>
    /\ IF ReadFull(Len(file), 8) # "nil"
       THEN /\ ReadReturn(p, Failed("failed to read PNG signature"))
            /\ UNCHANGED off
       ELSE /\ pc' = [pc EXCEPT ![p] = "chunk"]
            /\ off' = [off EXCEPT ![p] = 8]
            /\ UNCHANGED <<readRes, done>>

\* Verify PNG signature.
ReadPromptFromPNG_Signature(p) ==
    /\ pc[p] = "signature"
    /\ UNCHANGED <<file, addVars, calls, initial, embedded, lastWriter>>
    /\ IF ReadFull(Len(file), 8) # "nil"
       THEN /\ ReadReturn(p, Failed("failed to read PNG signature"))
            /\ UNCHANGED off
       ELSE IF Slice(file, 0, 8) # PNGSignature
       THEN /\ ReadReturn(p, Failed("not a valid PNG file"))
            /\ off' = [off EXCEPT ![p] = 8]
       ELSE /\ pc' = [pc EXCEPT ![p] = "chunk"]
            /\ off' = [off EXCEPT ![p] = 8]
            /\ UNCHANGED <<readRes, done>>

\* One iteration of the chunk loop.
ReadPromptFromPNG_Chunk(p) ==
    /\ pc[p] = "chunk"
    /\ UNCHANGED <<file, addVars, calls, initial, embedded, lastWriter>>
    /\ LET step == ReadChunk(file, off[p])
       IN  IF step.next
           THEN /\ off' = [off EXCEPT ![p] = step.off]
                /\ UNCHANGED <<pc, readRes, done>>
           ELSE /\ ReadReturn(p, step.res)
                /\ UNCHANGED off

\* ------------------------------------------------------------ runEdit

\* The errors runEdit returns before it has an edited image: the checks of
\* its arguments and flags, the loading of the input images, the client and
\* the API call.
EditErrors ==
    { "base image not found",
      "input image not found",
      "too many input images",
      "output file already exists",
      "unsupported aspect ratio",
      "--frugal mode has fixed 1024px output",
      "failed to load base image",
      "failed to load input image",
      "failed to create Gemini client",
      "failed to edit image" }

\* The images the API may answer with, as SaveImage decodes them: a PNG or a
\* JPEG.
EditedImages == {EncodedPNG, PNGSignature \o IENDChunk, JPEGSample}

\* return err from runEdit.
EditReturn(e) == edit' = [edit EXCEPT !.pc = "done", !.err = e]

\* runEdit up to the edited image: whether a check fails, and what the API
\* answers, is the environment's choice.
runEdit_Generate ==
    /\ edit.pc = "start"
    /\ UNCHANGED <<file, pc, addVars, readVars, done, calls, initial, embedded,
                   lastWriter, genVars, story>>
    /\ \/ \E e \in EditErrors : EditReturn(e)
       \/ \E sp \in BOOLEAN, i \in Prompts, img \in EditedImages :
              edit' = [edit EXCEPT !.pc = "save", !.editStorePrompt = sp,
                                   !.instruction = i, !.editedImageData = img]

\* filehandler.SaveImage(editedImageData, outputPath): the image written to
\* the output path, or an error with the file as it was or truncated.
runEdit_SaveImage ==
    /\ edit.pc = "save"
    /\ UNCHANGED <<pc, addVars, readVars, done, calls, initial, embedded,
                   lastWriter, genVars, story>>
    /\ \/ /\ file' \in {file, <<>>}
          /\ EditReturn("failed to save edited image")
       \/ /\ file' = edit.editedImageData
          /\ edit' = [edit EXCEPT !.saved = edit.editedImageData,
                                  !.pc = IF edit.editStorePrompt THEN "store"
                                         ELSE "return"]

\* metadata.AddPromptToPNG(outputPath, instruction), called when
\* --store-prompt is set.
runEdit_StorePrompt(p) ==
    /\ edit.pc = "store"
    /\ AddPromptToPNG_ReadFile(p, edit.instruction)
    /\ edit' = [edit EXCEPT !.pc = "storing"]
    /\ UNCHANGED <<genVars, story>>

\* After the call (or without it): the warning when AddPromptToPNG failed,
\* the messages ("(instruction stored in metadata)" under if editStorePrompt),
\* and return nil.
runEdit_Return(p) ==
    /\ \/ edit.pc = "return"
       \/ edit.pc = "storing" /\ pc[p] = "idle"
    /\ edit' = [edit EXCEPT !.pc = "done", !.err = "nil",
                            !.warned = (edit.pc = "storing" /\ addErr[p] # "nil"),
                            !.confirmed = edit.editStorePrompt]
    /\ UNCHANGED <<file, pc, addVars, readVars, done, calls, initial, embedded,
                   lastWriter, genVars, story>>

\* ------------------------------------------------------------ gemini.Client

ModelName == "gemini-2.5-flash-image"

BaseURL == "https://generativelanguage.googleapis.com/v1beta/models"

SupportedAspectRatios ==
    {"1:1", "16:9", "9:16", "4:3", "3:4", "3:2", "2:3", "21:9", "5:4", "4:5"}

\* The environment variables getAPIKey looks at, in its order.
APIKeyNames ==
    << "NANOBANANA_GEMINI_API_KEY", "NANOBANANA_GOOGLE_API_KEY",
       "GEMINI_API_KEY", "GOOGLE_API_KEY" >>

\* Environments: each variable unset (or empty) or set to one of two keys.
Environments ==
    [{APIKeyNames[i] : i \in 1..Len(APIKeyNames)} -> {"", "key-a", "key-b"}]

\* The environments the generate calls are explored in: no key at all, and
\* the README's export GEMINI_API_KEY=...
GenEnvironments ==
    {e \in Environments :
        \A n \in DOMAIN e : e[n] # "" => (n = "GEMINI_API_KEY" /\ e[n] = "key-a")}

\* getAPIKey(): the first non-empty variable, or "".
RECURSIVE FirstKeyFrom(_)
FirstKeyFrom(i) ==
    IF i > Len(APIKeyNames) THEN ""
    ELSE IF env[APIKeyNames[i]] # "" THEN env[APIKeyNames[i]]
    ELSE FirstKeyFrom(i + 1)

getAPIKeyGeminiFirst ==
    IF env["GEMINI_API_KEY"] # "" THEN env["GEMINI_API_KEY"]
    ELSE FirstKeyFrom(1)

getAPIKey == FirstKeyFrom(1)

ValidateAspectRatioAcceptAll(aspectRatio) == "nil"

\* ValidateAspectRatio(aspectRatio): "nil" or the error.
ValidateAspectRatio(aspectRatio) ==
    IF aspectRatio = "" THEN "nil"
    ELSE IF aspectRatio \in SupportedAspectRatios THEN "nil"
    ELSE "unsupported aspect ratio"

\* Models a caller may configure its client with: none, the ones of the
\* package's tests, the package's own.
Models ==
    {"", "nano-banana-pro-preview", "gemini-3-pro-image-preview",
     "gemini-2.5-flash-image"}

\* The arguments of the generate calls.
GenPrompts == {"test prompt"}

GenImages == {"", "aGVsbG8="}

GenAspectRatios == {"", "16:9", "7:5"}

\* Error messages an API error body may carry.
APIMessages ==
    { "blocked for safety", "API key not valid", "Quota exceeded", "boom" }

\* Response bodies: not JSON, an error object, or candidates whose first
\* one holds inline data, a long text without blanks, a short text, or no
\* part at all; "none" is no candidate.
Bodies ==
    [kind : {"garbage"}, message : {""}, part : {"none"}]
        \cup [kind : {"error"}, message : APIMessages, part : {"none"}]
        \cup [kind : {"candidates"}, message : {""},
              part : {"none", "empty", "inline", "longtext", "shorttext"}]

Responses == [status : {200, 400, 403, 500, 429}, body : Bodies]

\* handleError(statusCode, body).
handleError(statusCode, body) ==
    LET bodyStr == IF body.kind = "error" THEN body.message ELSE body.kind
    IN  CASE statusCode = 400 ->
                IF bodyStr = "blocked for safety"
                THEN "request rejected due to safety concerns"
                ELSE "malformed request"
          [] statusCode = 403 ->
                IF bodyStr = "API key not valid" THEN "invalid API key"
                ELSE IF bodyStr = "Quota exceeded" THEN "API quota exceeded"
                ELSE "authentication failed"
          [] statusCode = 500 -> "service error"
          [] OTHER -> "HTTP error"

\* extractImageData(result): the inline data or the long text of the first
\* candidate, or "".
extractImageData(body) ==
    IF body.part \in {"inline", "longtext"} THEN "iVBORw0KGgo=" ELSE ""

\* What GenerateContentWithOptions returns for a response.
GenerateResult(resp) ==
    IF resp.status # 200
    THEN [imageData |-> "", err |-> handleError(resp.status, resp.body)]
    ELSE IF resp.body.kind = "garbage"
    THEN [imageData |-> "", err |-> "failed to unmarshal response"]
    ELSE IF resp.body.kind = "error"
    THEN [imageData |-> "", err |-> "API error"]
    ELSE IF extractImageData(resp.body) = ""
    THEN [imageData |-> "", err |-> "no image data found in response"]
    ELSE [imageData |-> extractImageData(resp.body), err |-> "nil"]

\* client, err := NewClient(): the key from the environment, or an error
\* and no client.
NewClient ==
    /\ IF getAPIKey = ""
       THEN /\ client' = NoClient
            /\ clientErr' = "API key not found"
       ELSE /\ client' = [apiKey |-> getAPIKey, model |-> ""]
            /\ clientErr' = "nil"
    /\ UNCHANGED <<pkgVars, sent, genRes, env, genCall>>

\* A client built as a literal with a model of the caller's choice, as the
\* package's test builds it.
ClientLiteral ==
    /\ \E m \in Models : client' = [apiKey |-> "test-key", model |-> m]
    /\ UNCHANGED <<pkgVars, sent, genRes, env, clientErr, genCall>>

\* The request built from the arguments: the URL after BaseURL, the key, and
\* the JSON body.  generationConfig is a pointer with omitempty: <<>> is nil
\* (the field is absent from the body), <<c>> points to c.
GenerateRequest(text, imageBase64, aspectRatio) ==
    [ method |-> "POST",
      path   |-> <<"/", ModelName, ":generateContent">>,
      key    |-> client.apiKey,
      parts  |-> IF imageBase64 = "" THEN <<[text |-> text]>>
                 ELSE <<[text |-> text],
                        [mimeType |-> "image/png", data |-> imageBase64]>>,
      generationConfig |->
          IF aspectRatio = "" THEN <<>>
          ELSE <<[imageConfig |-> [aspectRatio |-> aspectRatio]]>> ]

\* c.GenerateContentWithOptions(text, imageBase64, aspectRatio): the
\* validation, the request, and the result read from the response; whether
\* the request can be sent, and the response, are the environment's choice.
GenerateContentWithOptions(text, imageBase64, aspectRatio) ==
    /\ client # NoClient
    /\ genCall' = [text |-> text, imageBase64 |-> imageBase64,
                   aspectRatio |-> aspectRatio, resolution |-> ""]
    /\ UNCHANGED <<pkgVars, client, env, clientErr>>
    /\ IF ValidateAspectRatio(aspectRatio) # "nil"
       THEN /\ genRes' = [imageData |-> "",
                          err |-> ValidateAspectRatio(aspectRatio)]
            /\ UNCHANGED sent
       ELSE \/ /\ genRes' = [imageData |-> "", err |-> "failed to send request"]
               /\ UNCHANGED sent
            \/ /\ sent' = Append(sent, GenerateRequest(text, imageBase64,
                                                        aspectRatio))
               /\ \/ genRes' = [imageData |-> "",
                                err |-> "failed to read response"]
                  \/ \E resp \in Responses : genRes' = GenerateResult(resp)

\* c.GenerateContent(text).
GenerateContent(text) == GenerateContentWithOptions(text, "", "")

\* c.GenerateContentWithImage(text, imageBase64).
GenerateContentWithImage(text, imageBase64) ==
    GenerateContentWithOptions(text, imageBase64, "")

\* The cheaper model of --frugal.
ModelNameFrugal == "gemini-2.5-flash-image"

\* The resolutions of --resolution, and none.
Resolutions == {"", "1K", "2K", "4K"}

ImageSizeAsRequested(model, resolution) == resolution

\* The imageSize of a request: none for the frugal model (its output is
\* fixed at 1024px), else the resolution asked for, else 4K.
ImageSizeFor(model, resolution) ==
    IF model = ModelNameFrugal THEN ""
    ELSE IF resolution = "" THEN "4K"
    ELSE resolution

\* c.GenerateContentWithResolution(text, resolution, aspectRatio): as
\* GenerateContentWithOptions without an image, the request always carrying
\* an imageConfig with the aspect ratio and the image size.
GenerateContentWithResolution(text, resolution, aspectRatio) ==
    /\ client # NoClient
    /\ genCall' = [text |-> text, imageBase64 |-> "",
                   aspectRatio |-> aspectRatio, resolution |-> resolution]
    /\ UNCHANGED <<pkgVars, client, env, clientErr>>
    /\ IF ValidateAspectRatio(aspectRatio) # "nil"
       THEN /\ genRes' = [imageData |-> "",
                          err |-> ValidateAspectRatio(aspectRatio)]
            /\ UNCHANGED sent
       ELSE \/ /\ genRes' = [imageData |-> "", err |-> "failed to send request"]
               /\ UNCHANGED sent
            \/ /\ sent' = Append(sent,
                    [GenerateRequest(text, "", aspectRatio) EXCEPT
                        !.generationConfig =
                            <<[imageConfig |->
                                [aspectRatio |-> aspectRatio,
                                 imageSize |-> ImageSizeFor(client.model,
                                                            resolution)]]>>])
               /\ \/ genRes' = [imageData |-> "",
                                err |-> "failed to read response"]
                  \/ \E resp \in Responses : genRes' = GenerateResult(resp)

\* ------------------------------------------------------------------ runStory

\* Values of --frames: the default 3, the limits 2 and 10, and their
\* neighbours.
StoryFrames == {0, 1, 2, 3, 10, 11}

\* The prompt of frame i of n.
FramePrompt(i, n) == <<"Frame", i, "of", n>>

\* return err from runStory.
StoryReturn(e) == story' = [story EXCEPT !.pc = "done", !.err = e]

\* runStory up to the loop: the checks of --frames, then the client.
runStory_Start ==
    /\ story.pc = "start"
    /\ \E n \in StoryFrames :
          IF n < 2
          THEN /\ story' = [story EXCEPT !.pc = "done", !.storyFrames = n,
                                         !.err = "frames must be at least 2"]
               /\ UNCHANGED <<pkgVars, genVars>>
          ELSE IF n > 10
          THEN /\ story' = [story EXCEPT !.pc = "done", !.storyFrames = n,
                                         !.err = "frames cannot exceed 10"]
               /\ UNCHANGED <<pkgVars, genVars>>
          ELSE /\ NewClient
               /\ story' = IF clientErr' # "nil"
                           THEN [story EXCEPT
                                    !.pc = "done", !.storyFrames = n,
                                    !.err = "failed to create Gemini client"]
                           ELSE [story EXCEPT
                                    !.pc = "loop", !.storyFrames = n, !.i = 1]

runStory_GenerateStopOnError ==
    /\ story.pc = "loop"
    /\ story.i <= story.storyFrames
    /\ GenerateContent(FramePrompt(story.i, story.storyFrames))
    /\ story' = IF genRes'.err # "nil"
                THEN [story EXCEPT !.attempted = Append(@, story.i),
                                   !.i = story.storyFrames + 1]
                ELSE [story EXCEPT !.attempted = Append(@, story.i),
                                   !.pc = "save"]

\* One iteration up to the image: client.GenerateContent(prompt); on an
\* error the message and continue.
runStory_Generate ==
    /\ story.pc = "loop"
    /\ story.i <= story.storyFrames
    /\ GenerateContent(FramePrompt(story.i, story.storyFrames))
    /\ story' = IF genRes'.err # "nil"
                THEN [story EXCEPT !.attempted = Append(@, story.i),
                                   !.i = @ + 1]
                ELSE [story EXCEPT !.attempted = Append(@, story.i),
                                   !.pc = "save"]

\* The rest of the iteration: filehandler.SaveImage(imageData, outputPath)
\* to a new file name; on an error the message and continue, else
\* successCount++.
runStory_SaveImage ==
    /\ story.pc = "save"
    /\ \/ story' = [story EXCEPT !.pc = "loop", !.i = @ + 1]
       \/ story' = [story EXCEPT !.pc = "loop", !.i = @ + 1,
                                 !.saved = Append(@, story.i),
                                 !.successCount = @ + 1]
    /\ UNCHANGED <<pkgVars, genVars>>

\* After the loop: the summary and return nil.
runStory_Return ==
    /\ story.pc = "loop"
    /\ story.i > story.storyFrames
    /\ StoryReturn("nil")
    /\ UNCHANGED <<pkgVars, genVars>>

\* ------------------------------------------------------------ specification

Step(p) ==
    \/ (\E t \in Prompts : AddPromptToPNG_ReadFile(p, t)) /\ UNCHANGED cliVars
    \/ convertJPEGToPNG(p) /\ UNCHANGED cliVars
    \/ AddPromptToPNG_Reread(p) /\ UNCHANGED cliVars
    \/ AddPromptToPNG_Write(p) /\ UNCHANGED cliVars
    \/ ReadPromptFromPNG_Open(p) /\ UNCHANGED cliVars
    \/ ReadPromptFromPNG_Signature(p) /\ UNCHANGED cliVars
    \/ ReadPromptFromPNG_Chunk(p) /\ UNCHANGED cliVars

\* One caller: calls follow one another.
Next == Step(1)

Spec == Init /\ [][Next]_vars

\* Two callers embedding into the same well-formed PNG file, with no lock
\* between them: each os.ReadFile and each os.WriteFile is one step, and the
\* steps of the two calls interleave freely.
InitConc == Init /\ file \in Containers

NextConc ==
    \E p \in Procs :
        \/ (\E t \in Prompts : AddPromptToPNG_ReadFile(p, t)) /\ UNCHANGED cliVars
        \/ AddPromptToPNG_Write(p) /\ UNCHANGED cliVars

SpecConc == InitConc /\ [][NextConc]_vars

\* The edit command run once by caller 1, with nothing or a PNG file at the
\* output path.
InitEdit == Init /\ file \in {<<>>, PNGSignature \o IENDChunk}

NextEdit ==
    \/ runEdit_Generate
    \/ runEdit_SaveImage
    \/ runEdit_StorePrompt(1)
    \/ convertJPEGToPNG(1) /\ UNCHANGED cliVars
    \/ AddPromptToPNG_Reread(1) /\ UNCHANGED cliVars
    \/ AddPromptToPNG_Write(1) /\ UNCHANGED cliVars
    \/ runEdit_Return(1)

SpecEdit == InitEdit /\ [][NextEdit]_vars

\* The API client alone: clients made and at most MaxGenerates requests sent
\* by generate calls.
InitGen == file = <<>> /\ InitBase /\ env \in GenEnvironments

NextGen ==
    \/ NewClient /\ UNCHANGED cmdVars
    \/ ClientLiteral /\ UNCHANGED cmdVars
    \/ /\ Len(sent) < MaxGenerates
       /\ \E text \in GenPrompts : GenerateContent(text)
       /\ UNCHANGED cmdVars
    \/ /\ Len(sent) < MaxGenerates
       /\ \E text \in GenPrompts, imageBase64 \in GenImages :
             GenerateContentWithImage(text, imageBase64)
       /\ UNCHANGED cmdVars
    \/ /\ Len(sent) < MaxGenerates
       /\ \E text \in GenPrompts, aspectRatio \in GenAspectRatios :
             GenerateContentWithOptions(text, "", aspectRatio)
       /\ UNCHANGED cmdVars

SpecGen == InitGen /\ [][NextGen]_vars

\* NewClient in every environment, and the calls of the client it made.
InitKey == file = <<>> /\ InitBase /\ env \in Environments

NextKey ==
    \/ NewClient /\ UNCHANGED cmdVars
    \/ /\ Len(sent) < MaxGenerates
       /\ \E text \in GenPrompts : GenerateContent(text)
       /\ UNCHANGED cmdVars

SpecKey == InitKey /\ [][NextKey]_vars

\* Clients of every model, built as the package's tests build them, and
\* their generate calls with a resolution and no aspect ratio.
InitRes == file = <<>> /\ InitBase /\ env = NoEnv

NextRes ==
    \/ ClientLiteral /\ UNCHANGED cmdVars
    \/ /\ Len(sent) < MaxGenerates
       /\ \E text \in GenPrompts, resolution \in Resolutions :
             GenerateContentWithResolution(text, resolution, "")
       /\ UNCHANGED cmdVars

SpecRes == InitRes /\ [][NextRes]_vars

\* One run of the story command, with or without an API key.
InitStory == file = <<>> /\ InitBase /\ env \in GenEnvironments

NextStory ==
    \/ runStory_Start /\ UNCHANGED edit
    \/ runStory_Generate /\ UNCHANGED edit
    \/ runStory_SaveImage /\ UNCHANGED edit
    \/ runStory_Return /\ UNCHANGED edit

SpecStory == InitStory /\ [][NextStory]_vars

\* Calls of ReadPromptFromPNG alone, one after the other, on a file nobody
\* writes.
InitRead == file \in ReadFiles /\ InitBase /\ env = NoEnv

ReadPromptFromPNG_Run ==
    \/ ReadPromptFromPNG_Signature(1) /\ UNCHANGED cliVars
    \/ ReadPromptFromPNG_Chunk(1) /\ UNCHANGED cliVars

NextRead ==
    \/ ReadPromptFromPNG_Open(1) /\ UNCHANGED cliVars
    \/ ReadPromptFromPNG_Run

SpecRead == InitRead /\ [][NextRead]_vars

\* A call that was made runs on to its return.
SpecReadLive == SpecRead /\ WF_vars(ReadPromptFromPNG_Run)

\* ------------------------------------------------------------ the PNG format

\* What the claims mean by a container, told by walking the chunk sequence
\* the way the PNG format lays it out (not by ReadPromptFromPNG's loop).

TerminalChunkBytes == <<0, 0, 0, 0, 73, 69, 78, 68, 174, 66, 96, 130>>

TypeAt(b, o) == Slice(b, o + 4, o + 8)

DataLenAt(b, o) == b[o + 3] * 256 + b[o + 4]

DataAt(b, o) == Slice(b, o + 8, o + 8 + DataLenAt(b, o))

\* A whole chunk, header to CRC, lies at offset o of b.
CompleteChunkAt(b, o) ==
    /\ Len(b) - o >= 12
    /\ b[o + 1] = 0
    /\ b[o + 2] = 0
    /\ Len(b) - o >= 12 + DataLenAt(b, o)

\* The offsets of the whole chunks from offset o on, up to the first IEND.
RECURSIVE ChunkOffsets(_, _)
ChunkOffsets(b, o) ==
    IF ~CompleteChunkAt(b, o) THEN <<>>
    ELSE IF TypeAt(b, o) = IEND THEN <<o>>
    ELSE <<o>> \o ChunkOffsets(b, o + 12 + DataLenAt(b, o))

Chunks(b) == IF HasPrefix(b, PNGSignature) THEN ChunkOffsets(b, 8) ELSE <<>>

\* Where the walk over whole chunks ends.
WalkEnd(b) ==
    LET offs == Chunks(b)
    IN  IF offs = <<>> THEN 8
        ELSE offs[Len(offs)] + 12 + DataLenAt(b, offs[Len(offs)])

\* Signature, chunks, and the terminal chunk in the last 12 bytes.
ValidContainer(b) ==
    LET offs == Chunks(b)
    IN  /\ HasPrefix(b, PNGSignature)
        /\ offs # <<>>
        /\ offs[Len(offs)] = Len(b) - 12
        /\ Slice(b, Len(b) - 12, Len(b)) = TerminalChunkBytes

\* The chunk at offset o is a tEXt chunk with keyword "Prompt".
PromptRecordAt(b, o) ==
    /\ TypeAt(b, o) = tEXt
    /\ DataLenAt(b, o) >= 7
    /\ Slice(DataAt(b, o), 0, 7) = PromptKeyword \o <<0>>

HasPromptRecord(b) ==
    LET offs == Chunks(b)
    IN  \E i \in 1..Len(offs) : PromptRecordAt(b, offs[i])

HasTerminalChunk(b) ==
    LET offs == Chunks(b)
    IN  offs # <<>> /\ TypeAt(b, offs[Len(offs)]) = IEND

Found(t) == [err |-> "nil", text |-> t]

\* p's last call was ReadPromptFromPNG, it has returned, and the file could
\* be opened.
HasRead(p) ==
    /\ pc[p] = "idle"
    /\ done[p] = "read"
    /\ readRes[p].err # "failed to open PNG file"

\* p's last call was AddPromptToPNG and it has returned.
HasAdded(p) == pc[p] = "idle" /\ done[p] = "add"

\* ------------------------------------------------------------ claims

\* C1 as stated: for every valid container b (with or without a Prompt
\* record already in it) and every text t, reading the result of
\* AddPromptToPNG(b, t) returns exactly t.
C1_RoundTripEveryContainer ==
    \A p \in {1} :
        (HasRead(p) /\ addErr[p] = "nil" /\ ValidContainer(data[p]))
            => readRes[p] = Found(prompt[p])

\* C1 amended: for every valid container b that holds no Prompt record and
\* every text t (empty, or with 0 bytes), reading the result of
\* AddPromptToPNG(b, t) returns exactly t.
C1_RoundTrip ==
    \A p \in {1} :
        (/\ HasRead(p)
         /\ addErr[p] = "nil"
         /\ ValidContainer(data[p])
         /\ ~HasPromptRecord(data[p]))
            => readRes[p] = Found(prompt[p])

\* C1 witness: a text with a 0 byte embedded into a container that has
\* another chunk, and read back.
C1_Witness ==
    /\ HasRead(1)
    /\ addErr[1] = "nil"
    /\ ValidContainer(data[1])
    /\ ~HasPromptRecord(data[1])
    /\ Len(Chunks(data[1])) = 2
    /\ prompt[1] = <<98, 0, 99>>
    /\ readRes[1] = Found(<<98, 0, 99>>)

\* C2: from a valid container with no Prompt record, embedding t1, then t2,
\* then reading returns t1, the record embedded first.
C2_FirstMatch ==
    \A p \in {1} :
        (/\ HasRead(p)
         /\ ValidContainer(initial)
         /\ ~HasPromptRecord(initial)
         /\ Len(embedded) >= 2
         /\ calls = Len(embedded))
            => readRes[p] = Found(embedded[1])

\* C2 witness: two different texts embedded, the first one read.
C2_Witness ==
    /\ HasRead(1)
    /\ ValidContainer(initial)
    /\ ~HasPromptRecord(initial)
    /\ Len(embedded) = 2
    /\ calls = 2
    /\ embedded[1] # embedded[2]
    /\ readRes[1] = Found(embedded[1])

\* C3 as stated: when AddPromptToPNG succeeds without transcoding (the input
\* starts with the signature and has 12 bytes or more, lengths 12 to 19
\* included), the first 8 bytes of the written file are the signature.
C3_SignaturePreserved ==
    \A p \in {1} :
        (HasAdded(p) /\ addErr[p] = "nil" /\ ~converted[p])
            => /\ HasPrefix(orig[p], PNGSignature)
               /\ Len(orig[p]) >= 12
               /\ HasPrefix(file, PNGSignature)

\* C4 as stated: whenever AddPromptToPNG succeeds, the last 12 bytes of the
\* written file are the terminal chunk (length 0, IEND, CRC AE 42 60 82) and
\* that chunk is the last chunk of the file's chunk sequence.
C4_TerminalChunkPreserved ==
    \A p \in {1} :
        (HasAdded(p) /\ addErr[p] = "nil")
            => /\ Len(file) >= 12
               /\ Slice(file, Len(file) - 12, Len(file)) = TerminalChunkBytes
               /\ ValidContainer(file)

\* First two bytes FF D8, and not the PNG signature.
IsLegacyRaster(b) == ~HasPrefix(b, PNGSignature) /\ HasPrefix(b, <<255, 216>>)

\* Errors of AddPromptToPNG that come from the file system or the encoder.
IOFailures ==
    { "failed to read image file",
      "failed to read converted PNG file",
      "failed to write PNG file",
      "failed to convert JPEG to PNG: open",
      "failed to convert JPEG to PNG: create",
      "failed to convert JPEG to PNG: failed to encode PNG" }

TranscodeFailure == "failed to convert JPEG to PNG: failed to decode JPEG"

\* C5 as stated: for every buffer whose first two bytes are FF D8,
\* AddPromptToPNG succeeds (the file system permitting) and the written file
\* starts with the PNG signature.
C5_TranscodeAlwaysSucceeds ==
    \A p \in {1} :
        (HasAdded(p) /\ IsLegacyRaster(orig[p]) /\ addErr[p] \notin IOFailures)
            => (addErr[p] = "nil" /\ HasPrefix(file, PNGSignature))

\* C5 amended: for every buffer whose first two bytes are FF D8 and which the
\* JPEG decoder decodes, AddPromptToPNG succeeds (the file system
\* permitting), the written file starts with the PNG signature, and
\* ReadPromptFromPNG on it returns the text.
C5_TranscodeThenEmbed ==
    \A p \in {1} :
        (/\ pc[p] = "idle"
         /\ IsLegacyRaster(orig[p])
         /\ addErr[p] \notin IOFailures \cup {TranscodeFailure})
            => /\ addErr[p] = "nil"
               /\ HasPrefix(file, PNGSignature)
               /\ HasRead(p) => readRes[p] = Found(prompt[p])

\* C5 witness: a JPEG converted, a text embedded and read back.
C5_Witness ==
    /\ HasRead(1)
    /\ IsLegacyRaster(orig[1])
    /\ converted[1]
    /\ addErr[1] = "nil"
    /\ HasPrefix(file, PNGSignature)
    /\ prompt[1] = <<97, 32, 115, 117, 110, 115, 101, 116>>
    /\ readRes[1] = Found(prompt[1])

\* The errors ReadPromptFromPNG returns for a file that ends too early.
TruncationErrors == {"EOF", "unexpected EOF"}

\* The file starts with the signature, holds whole chunks none of which is
\* IEND or a Prompt record, and then r more bytes that are no whole chunk.
EndsWithoutTerminal(b, r) ==
    /\ HasPrefix(b, PNGSignature)
    /\ Len(b) - WalkEnd(b) = r
    /\ ~HasTerminalChunk(b)
    /\ ~HasPromptRecord(b)

\* C6: reading a file that starts with the signature and ends in the middle
\* of a chunk (part of a header or CRC, or a declared length that runs past
\* the end), with no Prompt record before that point, fails with the
\* truncation error: no text, no record-not-found.
C6_TruncationRejected ==
    \A p \in {1} :
        (HasRead(p) /\ EndsWithoutTerminal(file, Len(file) - WalkEnd(file))
                    /\ Len(file) - WalkEnd(file) >= 1)
            => /\ readRes[p].err \in TruncationErrors
               /\ readRes[p].text = <<>>

\* C6 witness: the signature and the first 5 bytes of a chunk header.
C6_Witness ==
    /\ HasRead(1)
    /\ Len(file) = 13
    /\ EndsWithoutTerminal(file, 5)
    /\ readRes[1].err = "unexpected EOF"

C8_NotFound ==
    \A p \in {1} :
        (HasRead(p) /\ ValidContainer(file) /\ ~HasPromptRecord(file))
            => readRes[p] = Failed("no Prompt metadata found in PNG")

\* C8 witness: a container with a tEXt chunk of another kind, read to IEND.
C8_Witness ==
    /\ HasRead(1)
    /\ ValidContainer(file)
    /\ ~HasPromptRecord(file)
    /\ Len(Chunks(file)) = 2
    /\ TypeAt(file, 8) = tEXt
    /\ off[1] = Len(file) - 12
    /\ readRes[1] = Failed("no Prompt metadata found in PNG")

\* Signature and terminal chunk: the 20-byte minimal container.
MinimalContainer == PNGSignature \o TerminalChunkBytes

\* "a sunset"
ASunset == <<97, 32, 115, 117, 110, 115, 101, 116>>

\* The scenario of C9 has run: "a sunset" embedded into the minimal container.
C9_Scenario(p) ==
    /\ HasAdded(p)
    /\ addErr[p] = "nil"
    /\ data[p] = MinimalContainer
    /\ prompt[p] = ASunset

\* C9 as stated: the result is original length + 12 + 8 = 40 bytes long.
C9_ScenarioLength40 ==
    \A p \in {1} :
        C9_Scenario(p) => (Len(file) = Len(data[p]) + 12 + 8 /\ Len(file) = 40)

\* C9 amended: the result is original length + 12 + 15 = 47 bytes long, 15
\* being the length of "Prompt", the 0 byte and "a sunset".
C9_ScenarioLength ==
    \A p \in {1} :
        C9_Scenario(p) => (Len(file) = Len(data[p]) + 12 + 15 /\ Len(file) = 47)

\* C9 witness: the scenario has run.
C9_Witness == C9_Scenario(1) /\ Len(file) = 47

\* Keywords the layout is checked for: "Prompt", "K" and the empty keyword.
Keywords == {PromptKeyword, <<75>>, <<>>}

\* c is laid out as the tEXt chunk of keyword k and text t.
ChunkLayout(c, k, t) ==
    LET n == Len(k) + 1 + Len(t)
    IN  /\ Len(c) = 12 + n
        /\ c[1] * 16777216 + c[2] * 65536 + c[3] * 256 + c[4] = n
        /\ Slice(c, 4, 8) = <<116, 69, 88, 116>>
        /\ Slice(c, 8, 8 + Len(k)) = k
        /\ c[8 + Len(k) + 1] = 0
        /\ Slice(c, 8 + Len(k) + 1, 8 + n) = t
        /\ Slice(c, 8 + n, 12 + n) = BigEndianU32(ChecksumIEEE(Slice(c, 4, 8 + n)))

\* C10: createTextChunk(k, t) is 12 + len(k) + 1 + len(t) bytes: the
\* big-endian length len(k)+1+len(t), "tEXt", k, a 0 byte, t, and the
\* big-endian CRC-32 of the type and data bytes.  Stated for every keyword
\* of Keywords and the prompt at hand where the first call is about to build
\* its chunk, and for the chunk of every later call.
C10_ChunkLayout ==
    \A p \in {1} :
        pc[p] = "splice" =>
            \A k \in (IF calls = 1 THEN Keywords ELSE {PromptKeyword}) :
                ChunkLayout(createTextChunk(k, prompt[p]), k, prompt[p])

\* C10 witness: the chunk for a text with a 0 byte is about to be built.
C10_Witness ==
    /\ pc[1] = "splice"
    /\ prompt[1] = <<98, 0, 99>>
    /\ Len(createTextChunk(PromptKeyword, prompt[1])) = 22

\* The read of the file succeeded in p's AddPromptToPNG call, which is under
\* way or has returned: orig[p] is the buffer the call was given.
AddHasBuffer(p) ==
    \/ pc[p] \in {"splice", "convert", "reread"}
    \/ HasAdded(p) /\ addErr[p] # "failed to read image file"

UnsupportedFormat == "file is neither PNG nor JPEG format"

TooShort == "PNG file too short"

\* C12: AddPromptToPNG on a buffer that starts neither with the PNG
\* signature nor with FF D8 (the empty buffer and buffers of fewer than 2
\* bytes included) fails with "file is neither PNG nor JPEG format" and
\* leaves the file as it was; a buffer of fewer than 12 bytes gets this
\* error, not "PNG file too short".
C12_UnsupportedFormat ==
    \A p \in {1} :
        (/\ HasAdded(p)
         /\ addErr[p] # "failed to read image file"
         /\ ~(Len(orig[p]) >= 8 /\ SubSeq(orig[p], 1, 8) = PNGSignature)
         /\ ~(Len(orig[p]) >= 2 /\ SubSeq(orig[p], 1, 2) = <<255, 216>>))
            => /\ addErr[p] = UnsupportedFormat
               /\ file = orig[p]
               /\ steps[p] = <<"read">>

\* C12 witness: the empty file and a 7-byte cut of the signature rejected.
C12_Witness ==
    /\ HasAdded(1)
    /\ addErr[1] = UnsupportedFormat
    /\ orig[1] \in {<<>>, <<137, 80, 78, 71, 13, 10, 26>>}
    /\ file = orig[1]

\* C13: AddPromptToPNG on a buffer that starts with the PNG signature and
\* is 8 to 11 bytes long fails with "PNG file too short", attempts no write
\* and leaves the file as it was.
C13_TooShort ==
    \A p \in {1} :
        (/\ HasAdded(p)
         /\ addErr[p] # "failed to read image file"
         /\ Len(orig[p]) \in 8..11
         /\ SubSeq(orig[p], 1, 8) = PNGSignature)
            => /\ addErr[p] = TooShort
               /\ file = orig[p]
               /\ steps[p] = <<"read">>

\* C13 witness: an 11-byte file, signature and three bytes, rejected.
C13_Witness ==
    /\ HasAdded(1)
    /\ addErr[1] = TooShort
    /\ Len(orig[1]) = 11
    /\ file = orig[1]

\* The errors of ReadPromptFromPNG's signature check.
SignatureErrors == {"failed to read PNG signature", "not a valid PNG file"}

\* C14: ReadPromptFromPNG on a file whose first 8 bytes are not the PNG
\* signature (files of fewer than 8 bytes and JPEG files included) fails in
\* the signature check, before any chunk is read, and returns no text.
C14_ReadRejectsNonPNG ==
    \A p \in {1} :
        (HasRead(p) /\ ~(Len(file) >= 8 /\ SubSeq(file, 1, 8) = PNGSignature))
            => /\ readRes[p].err \in SignatureErrors
               /\ readRes[p].text = <<>>
               /\ off[p] <= 8

\* C14 witness: the read of the 8-byte JPEG file rejected.
C14_Witness ==
    /\ HasRead(1)
    /\ file = JPEGSample
    /\ readRes[1] = Failed("not a valid PNG file")

\* The format the claims assign to a buffer from its leading bytes.
Classify(b) ==
    IF Len(b) >= 8 /\ SubSeq(b, 1, 8) = <<137, 80, 78, 71, 13, 10, 26, 10>>
    THEN "Chunked"
    ELSE IF Len(b) >= 2 /\ SubSeq(b, 1, 2) = <<255, 216>>
    THEN "LegacyRaster"
    ELSE "Unrecognized"

\* The branch p's AddPromptToPNG call took after its format checks.
Decision(p) ==
    IF pc[p] = "convert" \/ converted[p] THEN "LegacyRaster"
    ELSE IF pc[p] = "idle" /\ addErr[p] = UnsupportedFormat THEN "Unrecognized"
    ELSE "Chunked"

\* C15: the branch AddPromptToPNG takes depends on the leading bytes only:
\* 8 bytes or more starting with the PNG signature is chunked, else 2 bytes
\* or more starting with FF D8 is legacy raster, else unrecognized; no
\* buffer passes both format tests.
C15_FormatDecision ==
    \A p \in {1} :
        AddHasBuffer(p) =>
            /\ Decision(p) = Classify(orig[p])
            /\ ~(HasPrefix(orig[p], PNGSignature) /\ HasPrefix(orig[p], JPEGMagic))

\* C15 witness: a one-byte FF file found unrecognized, after a call that
\* found it so as well.
C15_Witness ==
    /\ HasAdded(1)
    /\ orig[1] = <<255>>
    /\ Decision(1) = "Unrecognized"
    /\ calls = 2

\* The errors of AddPromptToPNG once the file has been read.
FailuresAfterRead ==
    { UnsupportedFormat,
      TooShort,
      "failed to convert JPEG to PNG: open",
      "failed to convert JPEG to PNG: failed to decode JPEG",
      "failed to convert JPEG to PNG: create",
      "failed to convert JPEG to PNG: failed to encode PNG",
      "failed to read converted PNG file",
      "failed to write PNG file" }

\* C16 as stated: whenever AddPromptToPNG returns an error (unsupported
\* format, failed conversion, failed re-read, too short, failed write), the
\* file holds the bytes it held before the call; a JPEG file is never left
\* converted, truncated or partly written by a failing call.
C16_AtomicFailure ==
    \A p \in {1} :
        (HasAdded(p) /\ addErr[p] \in FailuresAfterRead) => file = orig[p]

\* The file ends with chunk c followed by its last 12 bytes.
ChunkBeforeLast12(b, c) ==
    /\ Len(b) >= 12 + Len(c)
    /\ Slice(b, Len(b) - 12 - Len(c), Len(b) - 12) = c

\* No step occurs twice in s.
NoStepTwice(s) == \A i, j \in 1..Len(s) : s[i] = s[j] => i = j

\* C17: AddPromptToPNG returns nil only after the read, the conversion and
\* re-read when the file was a JPEG, the length check and the write, each
\* attempted once and in that order, and the file then holds the new Prompt
\* chunk in front of its last 12 bytes; no call attempts a step twice.
C17_SuccessOnlyAfterEveryStep ==
    \A p \in {1} :
        /\ NoStepTwice(steps[p])
        /\ (HasAdded(p) /\ addErr[p] = "nil") =>
               /\ steps[p] = IF HasPrefix(orig[p], PNGSignature)
                             THEN <<"read", "write">>
                             ELSE <<"read", "convert", "reread", "write">>
               /\ Len(data[p]) >= 12
               /\ ChunkBeforeLast12(file,
                                    createTextChunk(PromptKeyword, prompt[p]))

\* C17 witness: a successful call on a JPEG file, all four steps taken.
C17_Witness ==
    /\ HasAdded(1)
    /\ addErr[1] = "nil"
    /\ steps[1] = <<"read", "convert", "reread", "write">>
    /\ file = InsertBeforeIEND(EncodedPNG,
                               createTextChunk(PromptKeyword, prompt[1]))

\* The other caller.
Other(p) == CHOOSE q \in Procs : q # p

\* Both callers have made one call each and both calls returned nil.
BothAdded ==
    /\ calls = 2
    /\ \A p \in Procs : HasAdded(p) /\ addErr[p] = "nil"

\* b with the Prompt chunk of text t in front of its last 12 bytes.
WithRecord(b, t) ==
    SubSeq(b, 1, Len(b) - 12) \o createTextChunk(PromptKeyword, t)
        \o SubSeq(b, Len(b) - 11, Len(b))

\* C18: after two concurrent successful calls on a well-formed PNG file, the
\* file is what the last writer wrote: the bytes it read with its own chunk
\* in front of IEND.  The other call's chunk is in it exactly when the last
\* writer read the file after the other's write; otherwise the file is the
\* initial file with the last writer's chunk alone.
C18_LastWriterWins ==
    BothAdded =>
        LET w == lastWriter
            o == Other(lastWriter)
        IN  /\ w \in Procs
            /\ file = WithRecord(data[w], prompt[w])
            /\ data[w] = IF seen[w] = 0 THEN initial
                         ELSE WithRecord(initial, prompt[o])

\* C18 witness: both calls read the initial file, caller 2 wrote first and
\* caller 1 last, so the chunk of caller 2 is lost.
C18_Witness ==
    /\ BothAdded
    /\ lastWriter = 1
    /\ seen = [p \in Procs |-> 0]
    /\ prompt[1] # prompt[2]
    /\ file = WithRecord(initial, prompt[1])

\* C19 as stated: in runEdit with --store-prompt, once the edited image is
\* saved, a failing AddPromptToPNG does not fail the command (runEdit
\* returns nil) and the file at the output path is the image as it was
\* saved.
C19_MetadataFailureNonFatal ==
    (/\ edit.pc = "done"
     /\ edit.editStorePrompt
     /\ HasAdded(1)
     /\ addErr[1] # "nil")
        => (edit.err = "nil" /\ file = edit.saved)

\* The model the claims expect in the request path for client c.
ExpectedModel(c) ==
    IF c.model = "" THEN "gemini-3-pro-image-preview" ELSE c.model

\* C20 as stated: every request a generate call sends goes to the path
\* "/<model>:generateContent", <model> being the model the client was
\* configured with, or "gemini-3-pro-image-preview" when that is empty.
C20_ModelInRequestPath ==
    [][sent' # sent =>
          sent'[Len(sent')].path
              = <<"/", ExpectedModel(client), ":generateContent">>]_vars

\* C22: in every combination of the four variables NewClient's key is the
\* first non-empty one in the order NANOBANANA_GEMINI_API_KEY,
\* NANOBANANA_GOOGLE_API_KEY, GEMINI_API_KEY, GOOGLE_API_KEY; with all four
\* empty the key is "", NewClient returns its error and there is no client.
KeyOrder ==
    << "NANOBANANA_GEMINI_API_KEY", "NANOBANANA_GOOGLE_API_KEY",
       "GEMINI_API_KEY", "GOOGLE_API_KEY" >>

C22_FirstNonEmptyKey ==
    clientErr # "none" =>
        /\ \A i \in 1..4 :
              (env[KeyOrder[i]] # "" /\ \A j \in 1..(i - 1) : env[KeyOrder[j]] = "")
                  => clientErr = "nil" /\ client.apiKey = env[KeyOrder[i]]
        /\ (\A i \in 1..4 : env[KeyOrder[i]] = "")
              => clientErr = "API key not found" /\ client = NoClient

C22_Witness ==
    /\ clientErr = "nil"
    /\ env["NANOBANANA_GEMINI_API_KEY"] = ""
    /\ env["NANOBANANA_GOOGLE_API_KEY"] = ""
    /\ env["GEMINI_API_KEY"] = "key-a"
    /\ env["GOOGLE_API_KEY"] = "key-b"
    /\ client.apiKey = "key-a"

\* C30: a generate call whose aspect ratio is non-empty and not a supported
\* one returns the validation error and sends nothing; a request sent for an
\* empty aspect ratio carries no generationConfig; a request sent for a
\* supported one carries exactly that aspect ratio.
GenerateCalled == <<genCall, sent, genRes>>' # <<genCall, sent, genRes>>

C30_AspectRatioGate ==
    [][GenerateCalled =>
        LET a == genCall'.aspectRatio
            request == sent'[Len(sent')]
        IN  /\ (a # "" /\ a \notin SupportedAspectRatios)
                  => /\ sent' = sent
                     /\ genRes' = [imageData |-> "",
                                   err |-> "unsupported aspect ratio"]
            /\ (sent' # sent /\ a = "")
                  => request.generationConfig = <<>>
            /\ (sent' # sent /\ a \in SupportedAspectRatios)
                  => request.generationConfig =
                         <<[imageConfig |-> [aspectRatio |-> a]]>>]_vars

C30_Witness ==
    /\ genCall.aspectRatio = "7:5"
    /\ genRes.err = "unsupported aspect ratio"
    /\ Len(sent) = 1
    /\ sent[1].generationConfig = <<[imageConfig |-> [aspectRatio |-> "16:9"]]>>

C29_ConfirmationOnlyOnSuccess ==
    edit.pc = "done" =>
        /\ edit.confirmed => (edit.editStorePrompt /\ addErr[1] = "nil")
        /\ edit.warned => ~edit.confirmed

\* C23: runStory accepts only 2..10 frames: for any other count it returns
\* its error with no client created, no request sent, no frame attempted and
\* no file written.  For an accepted count the frames are attempted in the
\* order 1, 2, ..., a failed frame not stopping the ones after it: when
\* runStory returns nil every frame 1..n has been attempted, and each frame
\* saved is one of them.
C23_StoryFrames ==
    LET n == story.storyFrames
    IN  /\ (story.pc # "start" /\ ~(2 <= n /\ n <= 10))
              => /\ story.pc = "done"
                 /\ story.err \in {"frames must be at least 2",
                                    "frames cannot exceed 10"}
                 /\ client = NoClient /\ clientErr = "none"
                 /\ sent = <<>> /\ genCall = NoCall
                 /\ story.attempted = <<>> /\ story.saved = <<>>
        /\ (story.pc # "start" /\ 2 <= n /\ n <= 10)
              => /\ story.err # "frames must be at least 2"
                 /\ story.err # "frames cannot exceed 10"
                 /\ Len(story.attempted) <= n
                 /\ \A k \in 1..Len(story.attempted) : story.attempted[k] = k
                 /\ Len(sent) <= Len(story.attempted)
                 /\ \A k \in 1..Len(story.saved) :
                       story.saved[k] \in 1..Len(story.attempted)
        /\ (story.pc = "done" /\ story.err = "nil")
              => Len(story.attempted) = n

C23_Witness ==
    /\ story.pc = "done"
    /\ story.err = "nil"
    /\ story.storyFrames = 10
    /\ story.attempted = <<1, 2, 3, 4, 5, 6, 7, 8, 9, 10>>
    /\ story.saved = <<1, 3, 10>>
    /\ genRes.err = "nil"

\* C24: a successful AddPromptToPNG on a buffer b of n >= 12 bytes that needed
\* no conversion writes b[0:n-12], the new chunk, b[n-12:n]: every byte of b
\* is in the file, in its order, the first n-12 at their positions and the
\* last 12 moved up by the length of the chunk, whatever b holds after its
\* signature.
C24_SpliceByLength ==
    \A p \in {1} :
        (HasAdded(p) /\ addErr[p] = "nil" /\ ~converted[p]) =>
            LET b == orig[p]
                n == Len(b)
                c == createTextChunk(PromptKeyword, prompt[p])
            IN  /\ n >= 12
                /\ Len(file) = n + Len(c)
                /\ \A i \in 1..(n - 12) : file[i] = b[i]
                /\ \A i \in 1..Len(c) : file[n - 12 + i] = c[i]
                /\ \A i \in (n - 11)..n : file[i + Len(c)] = b[i]

\* C24 witness: a successful call on a buffer that ends in the middle of a
\* chunk, so that its last 12 bytes are no terminal chunk.
C24_Witness ==
    /\ HasAdded(1)
    /\ addErr[1] = "nil"
    /\ ~converted[1]
    /\ Len(orig[1]) >= 12
    /\ Slice(orig[1], Len(orig[1]) - 12, Len(orig[1])) # TerminalChunkBytes
    /\ Len(file) > Len(orig[1])

\* The Prompt chunks of the texts ts, one after the other.
RECURSIVE PromptChunks(_)
PromptChunks(ts) ==
    IF ts = <<>> THEN <<>>
    ELSE createTextChunk(PromptKeyword, Head(ts)) \o PromptChunks(Tail(ts))

\* C25: when the file was a well-formed container and every AddPromptToPNG
\* call so far has succeeded, the file is a well-formed container: it parses
\* chunk by chunk up to a terminal chunk that is its last 12 bytes, it has
\* one chunk more per call, the chunks of the initial file come first,
\* unchanged and in their order, and the Prompt chunks of the calls follow
\* in the order of the calls, right in front of the terminal chunk.
C25_WellFormedPreserved ==
    (ValidContainer(initial) /\ calls = Len(embedded)) =>
        /\ ValidContainer(file)
        /\ Len(Chunks(file)) = Len(Chunks(initial)) + calls
        /\ \A i \in 1..Len(Chunks(initial)) - 1 :
              Chunks(file)[i] = Chunks(initial)[i]
        /\ \A i \in 1..calls :
              /\ PromptRecordAt(file, Chunks(file)[Len(Chunks(initial)) - 1 + i])
              /\ DataAt(file, Chunks(file)[Len(Chunks(initial)) - 1 + i])
                     = PromptKeyword \o <<0>> \o embedded[i]
        /\ file = Slice(initial, 0, Len(initial) - 12)
                      \o PromptChunks(embedded) \o TerminalChunkBytes

\* C25 witness: two successful calls on a container that has a chunk of its
\* own.
C25_Witness ==
    /\ ValidContainer(initial)
    /\ Len(Chunks(initial)) = 2
    /\ calls = 2
    /\ Len(embedded) = 2
    /\ embedded[1] # embedded[2]
    /\ ValidContainer(file)

\* The offset right after the CRC of the chunk at offset o.
ChunkEnd(b, o) == o + 12 + DataLenAt(b, o)

\* What may follow the matching chunk: nothing, stray bytes, the start of a
\* chunk header, a terminal chunk, another Prompt record.
Continuations ==
    { <<>>, <<0>>, <<255, 255, 255>>, <<0, 0, 0, 9, 116, 69>>,
      TerminalChunkBytes,
      createTextChunk(PromptKeyword, <<120>>) \o TerminalChunkBytes,
      createTextChunk(PromptKeyword, <<120>>) }

\* C26: the text ReadPromptFromPNG returns is the data after the first 0 byte
\* of the first tEXt chunk, in file order, whose data up to that 0 byte is
\* "Prompt", and the result is the same for every buffer that agrees with
\* the file up to the end of that chunk's CRC, whatever follows it: nothing,
\* stray bytes, a cut-off chunk, a terminal chunk or further Prompt records.
C26_FirstMatchPrefixOnly ==
    \A p \in {1} :
        (HasRead(p) /\ readRes[p].err = "nil") =>
            LET o == off[p]
                offs == Chunks(file)
            IN  /\ \E i \in 1..Len(offs) :
                      /\ offs[i] = o
                      /\ PromptRecordAt(file, o)
                      /\ \A j \in 1..(i - 1) : ~PromptRecordAt(file, offs[j])
                /\ readRes[p].text = Slice(DataAt(file, o), 7, DataLenAt(file, o))
                /\ \A t \in Continuations \cup
                             {Slice(file, ChunkEnd(file, o), Len(file))} :
                      ReadAll(Slice(file, 0, ChunkEnd(file, o)) \o t) = readRes[p]

\* C26 witness: the text "o" read from a file in which another Prompt record
\* with the text "p" follows and whose terminal chunk is cut off.
C26_Witness ==
    /\ HasRead(1)
    /\ readRes[1] = Found(<<111>>)
    /\ CompleteChunkAt(file, ChunkEnd(file, off[1]))
    /\ PromptRecordAt(file, ChunkEnd(file, off[1]))
    /\ DataAt(file, ChunkEnd(file, off[1])) = PromptKeyword \o <<0, 112>>
    /\ ~HasTerminalChunk(file)

\* b with the 4 CRC bytes of the chunks at the offsets of S set to x.
WithCRCs(b, S, x) ==
    [i \in 1..Len(b) |->
        IF \E o \in S : ChunkEnd(b, o) - 4 < i /\ i <= ChunkEnd(b, o)
        THEN x ELSE b[i]]

\* The offsets of the whole chunks of b, the terminal chunk included.
ChunkOffsetSet(b) == {Chunks(b)[i] : i \in 1..Len(Chunks(b))}

\* C27: ReadPromptFromPNG returns the same for two buffers that differ only
\* in CRC bytes of chunks: whatever the read of the file returned, it
\* returns for the file with the CRC fields of any of its chunks overwritten;
\* no outcome reports a corrupted chunk.
C27_CRCNotValidated ==
    \A p \in {1} :
        HasRead(p) =>
            /\ \A S \in SUBSET ChunkOffsetSet(file), x \in {0, 255} :
                  ReadAll(WithCRCs(file, S, x)) = readRes[p]
            /\ readRes[p].err \in
                  {"nil", "no Prompt metadata found in PNG"}
                      \cup TruncationErrors \cup SignatureErrors

\* C27 witness: the text of a Prompt record returned although the CRC stored
\* with it is not the CRC-32 of its type and data.
C27_Witness ==
    /\ HasRead(1)
    /\ readRes[1] = Found(<<111>>)
    /\ off[1] = 8
    /\ Slice(file, ChunkEnd(file, 8) - 4, ChunkEnd(file, 8))
          # BigEndianU32(ChecksumIEEE(Slice(file, 12, ChunkEnd(file, 8) - 4)))

\* The number of the four outcomes that r is.
OutcomeCount(r) ==
    Cardinality({k \in 1..4 :
        \/ k = 1 /\ r.err = "nil"
        \/ k = 2 /\ r.err = "no Prompt metadata found in PNG"
        \/ k = 3 /\ r.err \in TruncationErrors
        \/ k = 4 /\ r.err \in SignatureErrors})

\* C28: a call of ReadPromptFromPNG starts at offset 0 with the signature,
\* goes from the signature check to the chunk loop and never back, each
\* iteration of the loop that goes on moves the offset forward by at least
\* 12 bytes and not past the end of the file, the offset never decreases
\* within a call, and a call that has opened the file returns: with exactly
\* one of the outcomes found, not found, truncated and not a PNG file, the
\* one every call on this buffer returns.
C28_ReadTerminates ==
    /\ [][/\ pc[1] = "idle" =>
                /\ pc'[1] \in {"idle", "signature"}
                /\ pc'[1] = "signature" => off'[1] = 0
          /\ pc[1] = "signature" => pc'[1] \in {"idle", "chunk"}
          /\ pc[1] = "chunk" =>
                /\ pc'[1] \in {"idle", "chunk"}
                /\ pc'[1] = "chunk" =>
                      (off'[1] >= off[1] + 12 /\ off'[1] <= Len(file))
          /\ pc[1] # "idle" => off'[1] >= off[1]
          /\ (pc[1] # "idle" /\ pc'[1] = "idle") =>
                /\ OutcomeCount(readRes'[1]) = 1
                /\ readRes'[1] = ReadAll(file)]_vars
    /\ (pc[1] # "idle") ~> (pc[1] = "idle")

\* C28 witness: a later call on the buffer, after an earlier one returned,
\* has come to the third chunk.
C28_Witness ==
    /\ done[1] = "read"
    /\ readRes[1] = NoResult
    /\ pc[1] = "chunk"
    /\ Len(Chunks(file)) = 3
    /\ off[1] = Chunks(file)[3]

====
